---------------------------- MODULE Spec2Model ----------------------------
(***************************************************************************)
(* Front end of the miniature compiler: LexicalAnalyzer (lexer.py),        *)
(* SyntaxAnalyzer (parser.py) and SemanticAnalyzer (semantic_analysis.py). *)
(*                                                                         *)
(* Text is a sequence of one-character strings.  Positions are 1-based     *)
(* (Python position p is position p+1 here).  A token is the triple        *)
(* <<type, lexeme, line>> of the source.  A Python number is the record    *)
(* [py, n, d]: its runtime class (int or float) and the value n/d in       *)
(* lowest terms; float rounding is not modelled.  A dict is a record; a    *)
(* key whose value is Python's None is left out of the record.             *)
(***************************************************************************)
EXTENDS Integers, Sequences, FiniteSets, TLC

VARIABLES
    stage,          \* which analyzer runs next: "lex", "parse", "sem", "done"
    source_code,    \* LexicalAnalyzer.source_code
    tokens,         \* LexicalAnalyzer.tokens, then SyntaxAnalyzer.tokens
    token_starts,   \* position of the match that produced each token
    current_line,   \* LexicalAnalyzer.current_line
    position,       \* the cursor of tokenize
    lexStatus,      \* outcome of tokenize
    ast,            \* the statement list, annotated in place by analyze
    pos,            \* SyntaxAnalyzer.pos
    parseStatus,    \* outcome of parse_program
    parseError,     \* what the raised error carries
    symbol_table,   \* SemanticAnalyzer.symbol_table
    idx,            \* index of the statement the loop of analyze is at
    attributed_ast, \* the list analyze builds and returns
    semStatus,      \* outcome of analyze
    semError        \* which error analyze raised

vars == <<stage, source_code, tokens, token_starts, current_line, position,
          lexStatus,
          ast, pos, parseStatus, parseError, symbol_table, idx,
          attributed_ast, semStatus, semError>>

None == "None"

(***************************************************************************)
(* Characters                                                              *)
(***************************************************************************)
Letters ==
    {"a","b","c","d","e","f","g","h","i","j","k","l","m","n","o","p","q",
     "r","s","t","u","v","w","x","y","z","_"}

Digits == {"0","1","2","3","4","5","6","7","8","9"}

WordChars == Letters \cup Digits

OperatorChars == {"+", "-", "*", "/", "=", "<", ">", "!"}

ParenChars == {"(", ")"}

BraceChars == {"{", "}"}

WhitespaceChars == {" ", "\t", "\n"}

Keywords ==
    << <<"i","f">>, <<"e","l","s","e">>, <<"w","h","i","l","e">>,
       <<"r","e","t","u","r","n">>, <<"i","n","t">>,
       <<"f","l","o","a","t">> >>

RECURSIVE LStrip(_)
\* str.lstrip(): drop the leading whitespace
LStrip(s) ==
    IF s # <<>> /\ Head(s) \in WhitespaceChars THEN LStrip(Tail(s)) ELSE s

(***************************************************************************)
(* The patterns of TOKENS, matched at a position as regex.match does.      *)
(* Each Match operator gives the position after the match, or 0.           *)
(***************************************************************************)
\* \b between positions p-1 and p
WordBoundary(s, p) ==
    ((p > 1) /\ (s[p-1] \in WordChars)) # ((p <= Len(s)) /\ (s[p] \in WordChars))

RECURSIVE RunEnd(_, _, _)
\* position after the longest run of characters of C that starts at p
RunEnd(s, p, C) ==
    IF p <= Len(s) /\ s[p] \in C THEN RunEnd(s, p + 1, C) ELSE p

HasPrefixAt(s, p, w) ==
    /\ p + Len(w) - 1 <= Len(s)
    /\ SubSeq(s, p, p + Len(w) - 1) = w

MatchKeyword(s, p) ==
    LET hits == {k \in 1..Len(Keywords) :
                    /\ WordBoundary(s, p)
                    /\ HasPrefixAt(s, p, Keywords[k])
                    /\ WordBoundary(s, p + Len(Keywords[k]))}
    IN IF hits = {} THEN 0
       ELSE p + Len(Keywords[CHOOSE k \in hits : \A j \in hits : k <= j])

MatchIdentifier(s, p) ==
    IF p <= Len(s) /\ s[p] \in Letters /\ WordBoundary(s, p)
    THEN LET e == RunEnd(s, p + 1, WordChars)
         IN IF WordBoundary(s, e) THEN e ELSE 0
    ELSE 0

\* \b\d+(\.\d+)?\b : the digit runs are greedy; a shorter run always ends
\* between two digits, where \b fails, so only the full runs can match
MatchNumber(s, p) ==
    IF p <= Len(s) /\ s[p] \in Digits /\ WordBoundary(s, p)
    THEN LET e1 == RunEnd(s, p, Digits)
             hasFraction == /\ e1 + 1 <= Len(s)
                            /\ s[e1] = "."
                            /\ s[e1 + 1] \in Digits
             e2 == RunEnd(s, e1 + 1, Digits)
         IN IF hasFraction /\ WordBoundary(s, e2) THEN e2
            ELSE IF WordBoundary(s, e1) THEN e1
            ELSE 0
    ELSE 0

MatchChar(s, p, C) == IF p <= Len(s) /\ s[p] \in C THEN p + 1 ELSE 0

MatchWhitespace(s, p) ==
    IF p <= Len(s) /\ s[p] \in WhitespaceChars
    THEN RunEnd(s, p, WhitespaceChars) ELSE 0

\* '.' matches any character but a newline
MatchUnknown(s, p) == IF p <= Len(s) /\ s[p] # "\n" THEN p + 1 ELSE 0

TOKENS(s, p) ==
    << <<"KEYWORD", MatchKeyword(s, p)>>,
       <<"IDENTIFIER", MatchIdentifier(s, p)>>,
       <<"NUMBER", MatchNumber(s, p)>>,
       <<"OPERATOR", MatchChar(s, p, OperatorChars)>>,
       <<"PAREN", MatchChar(s, p, ParenChars)>>,
       <<"BRACE", MatchChar(s, p, BraceChars)>>,
       <<"SEMICOLON", MatchChar(s, p, {";"})>>,
       <<"WHITESPACE", MatchWhitespace(s, p)>>,
       <<"UNKNOWN", MatchUnknown(s, p)>> >>

\* the first pattern of TOKENS that matches at p, as <<type, end>>;
\* <<None, 0>> when none does
FirstMatch(s, p) ==
    LET T == TOKENS(s, p)
        hits == {k \in 1..Len(T) : T[k][2] # 0}
    IN IF hits = {} THEN <<None, 0>>
       ELSE T[CHOOSE k \in hits : \A j \in hits : k <= j]

\* the one element of a one-element set.  Only({ f(x) : x \in {e} }) is f
\* applied to the value of e, with e evaluated a single time
Only(S) == CHOOSE x \in S : TRUE

(***************************************************************************)
(* Python numbers                                                          *)
(***************************************************************************)
DigitSeq == <<"0","1","2","3","4","5","6","7","8","9">>

DigitVal(c) == (CHOOSE k \in 1..10 : DigitSeq[k] = c) - 1

RECURSIVE DigitsVal(_)
DigitsVal(ds) ==
    IF ds = <<>> THEN 0
    ELSE 10 * DigitsVal(SubSeq(ds, 1, Len(ds) - 1)) + DigitVal(ds[Len(ds)])

RECURSIVE Pow10(_)
Pow10(k) == IF k = 0 THEN 1 ELSE 10 * Pow10(k - 1)

Abs(n) == IF n < 0 THEN -n ELSE n

RECURSIVE GCD(_, _)
GCD(a, b) == IF b = 0 THEN a ELSE GCD(b, a % b)

\* the Python number n/d (d # 0) of class py, in lowest terms
Num(py, n, d) ==
    LET g == GCD(Abs(n), Abs(d))
        sgn == IF d < 0 THEN -1 ELSE 1
    IN [py |-> py, n |-> sgn * (n \div g), d |-> sgn * (d \div g)]

\* float(lexeme) for a lexeme of the NUMBER pattern
float(lexeme) ==
    LET dots == {k \in 1..Len(lexeme) : lexeme[k] = "."}
    IN IF dots = {} THEN Num("float", DigitsVal(lexeme), 1)
       ELSE LET k == CHOOSE j \in dots : TRUE
                whole == SubSeq(lexeme, 1, k - 1)
                frac == SubSeq(lexeme, k + 1, Len(lexeme))
            IN Num("float",
                   DigitsVal(whole) * Pow10(Len(frac)) + DigitsVal(frac),
                   Pow10(Len(frac)))

(***************************************************************************)
(* SyntaxAnalyzer.  Every parse operator takes the token list and the      *)
(* cursor and gives [status, node, pos]; a status other than "ok" is the   *)
(* exception that left the method, with the line and the expected kind     *)
(* its message carries.                                                    *)
(***************************************************************************)
Ok(node, p) == [status |-> "ok", node |-> node, pos |-> p]

Raise(kind, line, expected, p) ==
    [status |-> kind, line |-> line, expected |-> expected, pos |-> p]

\* self.current_token is a token, not None
HasToken(toks, p) == p <= Len(toks)

CMP_OPS == { <<"<">>, <<">">>, <<"<","=">>, <<">","=">>, <<"=","=">>, <<"!","=">> }

consume(toks, p, expected_type) ==
    IF HasToken(toks, p) /\ toks[p][1] = expected_type
    THEN Ok(toks[p], p + 1)
    ELSE IF ~HasToken(toks, p)
    THEN Raise("TypeError", 0, None, p)      \* None[2] in the message
    ELSE Raise("SyntaxError", toks[p][3], expected_type, p)

RECURSIVE parse_statement(_, _), parse_block(_, _), block_loop(_, _, _),
          parse_if_statement(_, _), parse_expression(_, _),
          expression_loop(_, _, _), parse_arithmetic_expression(_, _),
          arithmetic_loop(_, _, _), parse_term(_, _), term_loop(_, _, _),
          parse_factor(_, _)

BinaryOperation(operator, left, right) ==
    [type |-> "binary_operation", operator |-> operator,
     left |-> left, right |-> right]

parse_factor(toks, p) ==
    IF ~HasToken(toks, p) THEN Raise("TypeError", 0, None, p)
    ELSE IF toks[p][1] = "NUMBER"
    THEN LET number == consume(toks, p, "NUMBER")
         IN Ok([type |-> "number", value |-> float(number.node[2])], number.pos)
    ELSE IF toks[p][1] = "IDENTIFIER"
    THEN LET identifier == consume(toks, p, "IDENTIFIER")
         IN Ok([type |-> "identifier", name |-> identifier.node[2]], identifier.pos)
    ELSE IF toks[p][1] = "PAREN" /\ toks[p][2] = <<"(">>
    THEN Only({
           IF expression.status # "ok" THEN expression
           ELSE LET close == consume(toks, expression.pos, "PAREN")
                IN IF close.status # "ok" THEN close
                   ELSE Ok(expression.node, close.pos) :
           expression \in {parse_expression(toks, consume(toks, p, "PAREN").pos)} })
    ELSE Raise("SyntaxError", toks[p][3], None, p)

term_loop(toks, left, p) ==
    IF HasToken(toks, p) /\ toks[p][1] = "OPERATOR"
       /\ toks[p][2] \in { <<"*">>, <<"/">> }
    THEN LET operator == consume(toks, p, "OPERATOR")
         IN Only({
              IF right.status # "ok" THEN right
              ELSE term_loop(toks,
                             BinaryOperation(operator.node[2], left, right.node),
                             right.pos) :
              right \in {parse_factor(toks, operator.pos)} })
    ELSE Ok(left, p)

parse_term(toks, p) ==
    Only({ IF left.status # "ok" THEN left
           ELSE term_loop(toks, left.node, left.pos) :
           left \in {parse_factor(toks, p)} })

arithmetic_loop(toks, left, p) ==
    IF HasToken(toks, p) /\ toks[p][1] = "OPERATOR"
       /\ toks[p][2] \in { <<"+">>, <<"-">> }
    THEN LET operator == consume(toks, p, "OPERATOR")
         IN Only({
              IF right.status # "ok" THEN right
              ELSE arithmetic_loop(toks,
                                   BinaryOperation(operator.node[2], left, right.node),
                                   right.pos) :
              right \in {parse_term(toks, operator.pos)} })
    ELSE Ok(left, p)

RECURSIVE parse_arithmetic_expression_right(_, _)
\* parse_arithmetic_expression written with right recursion, not a loop
parse_arithmetic_expression_right(toks, p) ==
    Only({ IF left.status # "ok" THEN left
           ELSE IF HasToken(toks, left.pos) /\ toks[left.pos][1] = "OPERATOR"
                   /\ toks[left.pos][2] \in { <<"+">>, <<"-">> }
           THEN Only({
                  IF right.status # "ok" THEN right
                  ELSE Ok(BinaryOperation(toks[left.pos][2], left.node, right.node),
                          right.pos) :
                  right \in {parse_arithmetic_expression_right(toks, left.pos + 1)} })
           ELSE left :
           left \in {parse_term(toks, p)} })

parse_arithmetic_expression(toks, p) ==
    Only({ IF left.status # "ok" THEN left
           ELSE arithmetic_loop(toks, left.node, left.pos) :
           left \in {parse_term(toks, p)} })

expression_loop(toks, left, p) ==
    IF HasToken(toks, p) /\ toks[p][1] = "OPERATOR" /\ toks[p][2] \in CMP_OPS
    THEN LET operator == consume(toks, p, "OPERATOR")
         IN Only({
              IF right.status # "ok" THEN right
              ELSE expression_loop(toks,
                                   BinaryOperation(operator.node[2], left, right.node),
                                   right.pos) :
              right \in {parse_arithmetic_expression(toks, operator.pos)} })
    ELSE Ok(left, p)

parse_expression(toks, p) ==
    Only({ IF left.status # "ok" THEN left
           ELSE expression_loop(toks, left.node, left.pos) :
           left \in {parse_arithmetic_expression(toks, p)} })

\* expression = self.parse_expression(); self.consume('SEMICOLON')
expression_statement(toks, p) ==
    Only({ IF expression.status # "ok" THEN expression
           ELSE LET semi == consume(toks, expression.pos, "SEMICOLON")
                IN IF semi.status # "ok" THEN semi
                   ELSE Ok(expression.node, semi.pos) :
           expression \in {parse_expression(toks, p)} })

parse_declaration(toks, p) ==
    LET var_type == consume(toks, p, "KEYWORD")
    IN IF var_type.status # "ok" THEN var_type ELSE
    LET var_name == consume(toks, var_type.pos, "IDENTIFIER")
    IN IF var_name.status # "ok" THEN var_name ELSE
    LET eq == consume(toks, var_name.pos, "OPERATOR")
    IN IF eq.status # "ok" THEN eq ELSE
    Only({ IF expression.status # "ok" THEN expression
           ELSE Ok([type |-> "declaration", var_type |-> var_type.node[2],
                    var_name |-> var_name.node[2],
                    expression |-> expression.node],
                   expression.pos) :
           expression \in {expression_statement(toks, eq.pos)} })

parse_assignment(toks, p) ==
    LET var_name == consume(toks, p, "IDENTIFIER")
    IN IF var_name.status # "ok" THEN var_name ELSE
    LET eq == consume(toks, var_name.pos, "OPERATOR")
    IN IF eq.status # "ok" THEN eq ELSE
    Only({ IF expression.status # "ok" THEN expression
           ELSE Ok([type |-> "assignment", var_name |-> var_name.node[2],
                    expression |-> expression.node],
                   expression.pos) :
           expression \in {expression_statement(toks, eq.pos)} })

parse_return_statement(toks, p) ==
    LET kw == consume(toks, p, "KEYWORD")
    IN IF kw.status # "ok" THEN kw ELSE
    Only({ IF expression.status # "ok" THEN expression
           ELSE Ok([type |-> "return_statement", expression |-> expression.node],
                   expression.pos) :
           expression \in {expression_statement(toks, kw.pos)} })

block_loop(toks, block, p) ==
    IF HasToken(toks, p) /\ toks[p][1] # "BRACE"
    THEN Only({
           IF statement.status # "ok" THEN statement
           ELSE block_loop(toks, Append(block, statement.node), statement.pos) :
           statement \in {parse_statement(toks, p)} })
    ELSE LET close == consume(toks, p, "BRACE")
         IN IF close.status # "ok" THEN close ELSE Ok(block, close.pos)

parse_block(toks, p) ==
    LET open == consume(toks, p, "BRACE")
    IN IF open.status # "ok" THEN open ELSE block_loop(toks, <<>>, open.pos)

\* the else-arm, once condition and body are parsed
else_arm(toks, node, p) ==
    IF HasToken(toks, p) /\ toks[p][1] = "KEYWORD" /\ toks[p][2] = <<"e","l","s","e">>
    THEN Only({
           IF else_body.status # "ok" THEN else_body
           ELSE Ok(node @@ [else_body |-> else_body.node], else_body.pos) :
           else_body \in {parse_block(toks, consume(toks, p, "KEYWORD").pos)} })
    ELSE Ok(node, p)                            \* else_body = None

parse_if_statement(toks, p) ==
    LET kw == consume(toks, p, "KEYWORD")
    IN IF kw.status # "ok" THEN kw ELSE
    LET open == consume(toks, kw.pos, "PAREN")
    IN IF open.status # "ok" THEN open ELSE
    Only({
      IF condition.status # "ok" THEN condition ELSE
      LET close == consume(toks, condition.pos, "PAREN")
      IN IF close.status # "ok" THEN close ELSE
      Only({
        IF body.status # "ok" THEN body
        ELSE else_arm(toks,
                      [type |-> "if_statement", condition |-> condition.node,
                       body |-> body.node],
                      body.pos) :
        body \in {parse_block(toks, close.pos)} }) :
      condition \in {parse_expression(toks, open.pos)} })

\* called only while self.current_token is a token
parse_statement(toks, p) ==
    IF toks[p][1] = "KEYWORD"
    THEN IF toks[p][2] \in { <<"i","n","t">>, <<"f","l","o","a","t">> }
         THEN parse_declaration(toks, p)
         ELSE IF toks[p][2] = <<"i","f">> THEN parse_if_statement(toks, p)
         ELSE IF toks[p][2] = <<"r","e","t","u","r","n">>
         THEN parse_return_statement(toks, p)
         ELSE Raise("SyntaxError", toks[p][3], None, p)
    ELSE IF toks[p][1] = "IDENTIFIER" THEN parse_assignment(toks, p)
    ELSE Raise("SyntaxError", toks[p][3], None, p)

RECURSIVE program_loop(_, _, _)
program_loop(toks, tree, p) ==
    IF HasToken(toks, p)
    THEN Only({
           IF statement.status # "ok" THEN statement
           ELSE program_loop(toks, Append(tree, statement.node), statement.pos) :
           statement \in {parse_statement(toks, p)} })
    ELSE Ok(tree, p)

parse_program(toks) == program_loop(toks, <<>>, 1)

(***************************************************************************)
(* SemanticAnalyzer.  Type names and variable names are text, as the       *)
(* parser takes them from lexemes.                                         *)
(***************************************************************************)
INT == <<"i","n","t">>

FLOAT == <<"f","l","o","a","t">>

BOOL == <<"b","o","o","l">>

EvalOk(value, type) == [status |-> "ok", value |-> value, type |-> type]

EvalRaise(status, error) == [status |-> status, error |-> error]

\* the class of the result of an arithmetic operator on two numbers
ResultClass(l, r) == IF l.py = "int" /\ r.py = "int" THEN "int" ELSE "float"

perform_operation(left_value, right_value, operator) ==
    LET l == left_value
        r == right_value
    IN IF operator = <<"+">>
       THEN EvalOk(Num(ResultClass(l, r), l.n * r.d + r.n * l.d, l.d * r.d), None)
       ELSE IF operator = <<"-">>
       THEN EvalOk(Num(ResultClass(l, r), l.n * r.d - r.n * l.d, l.d * r.d), None)
       ELSE IF operator = <<"*">>
       THEN EvalOk(Num(ResultClass(l, r), l.n * r.n, l.d * r.d), None)
       ELSE IF operator = <<"/">>
       THEN IF r.n = 0 THEN EvalRaise("ZeroDivisionError", "ZeroDivision")
            ELSE EvalOk(Num("float", l.n * r.d, l.d * r.n), None)
       ELSE EvalRaise("Exception", "UnsupportedOperator")

evaluate_condition(left_value, right_value, operator) ==
    LET l == left_value
        r == right_value
    IN IF operator = <<"<">> THEN EvalOk(l.n * r.d < r.n * l.d, BOOL)
       ELSE IF operator = <<">">> THEN EvalOk(l.n * r.d > r.n * l.d, BOOL)
       ELSE IF operator = <<"=","=">> THEN EvalOk(l.n * r.d = r.n * l.d, BOOL)
       ELSE EvalRaise("Exception", "UnsupportedOperator")

RECURSIVE evaluate_expression(_, _)
evaluate_expression(expr, table) ==
    IF expr.type = "number"
    THEN EvalOk(expr.value, IF expr.value.py = "int" THEN INT ELSE FLOAT)
    ELSE IF expr.type = "identifier"
    THEN IF expr.name \in DOMAIN table
         THEN EvalOk(table[expr.name].value, table[expr.name].type)
         ELSE EvalRaise("Exception", "UndeclaredVariable")
    ELSE IF expr.type = "binary_operation"
    THEN LET left == evaluate_expression(expr.left, table)
         IN IF left.status # "ok" THEN left ELSE
         LET right == evaluate_expression(expr.right, table)
         IN IF right.status # "ok" THEN right ELSE
         IF left.type # right.type
         THEN EvalRaise("Exception", "TypeMismatch")
         ELSE LET result == perform_operation(left.value, right.value, expr.operator)
              IN IF result.status # "ok" THEN result
                 ELSE EvalOk(result.value, left.type)
    ELSE EvalRaise("Exception", "UnknownExpression")

\* expr['evaluated_type'] = t; expr['evaluated_value'] = v
Annotate(expr, t, v) == [evaluated_type |-> t, evaluated_value |-> v] @@ expr

\* what a method of the analyzer leaves behind: how it ended, the node as
\* it now is, and the symbol table
Done(node, table) ==
    [status |-> "ok", error |-> None, node |-> node, table |-> table]

Failed(r, node, table) ==
    [status |-> r.status, error |-> r.error, node |-> node, table |-> table]

\* analyze_declaration storing the variable before the type check
analyze_declaration_store_first(node, table) ==
    LET e == evaluate_expression(node.expression, table)
        stored == (node.var_name :> [type |-> node.var_type, value |-> e.value])
                     @@ table
    IN IF e.status # "ok" THEN Failed(e, node, table)
       ELSE IF e.type # node.var_type
       THEN Failed(EvalRaise("Exception", "TypeMismatch"), node, stored)
       ELSE Done([node EXCEPT !.expression = Annotate(@, e.type, e.value)], stored)

analyze_declaration(node, table) ==
    LET e == evaluate_expression(node.expression, table)
    IN IF e.status # "ok" THEN Failed(e, node, table)
       ELSE IF e.type # node.var_type
       THEN Failed(EvalRaise("Exception", "TypeMismatch"), node, table)
       ELSE Done([node EXCEPT !.expression = Annotate(@, e.type, e.value)],
                 (node.var_name :> [type |-> node.var_type, value |-> e.value])
                    @@ table)

analyze_return_statement(node, table) ==
    LET e == evaluate_expression(node.expression, table)
    IN IF e.status # "ok" THEN Failed(e, node, table)
       ELSE Done([node EXCEPT !.expression = Annotate(@, e.type, e.value)], table)

\* analyze(ast) when ast is a statement dict, not a list: the loop draws the
\* keys of the dict, which are strings, and indexes the first with 'type'
analyze_dict(node, table) ==
    IF DOMAIN node = {} THEN Done(node, table)
    ELSE Failed(EvalRaise("TypeError", "StringIndex"), node, table)

\* the two loops over body and else_body; a block is left as it is unless
\* every call of analyze on its statements returns
analyze_blocks(node, table) ==
    IF Len(node.body) > 0
    THEN analyze_dict(node.body[1], table)
    ELSE IF "else_body" \in DOMAIN node /\ Len(node.else_body) > 0
    THEN analyze_dict(node.else_body[1], table)
    ELSE Done(node, table)

analyze_if_statement(node, table) ==
    LET condition == node.condition
    IN IF "left" \notin DOMAIN condition
       THEN Failed(EvalRaise("KeyError", "left"), node, table) ELSE
    LET left == evaluate_expression(condition.left, table)
    IN IF left.status # "ok" THEN Failed(left, node, table) ELSE
    LET right == evaluate_expression(condition.right, table)
    IN IF right.status # "ok" THEN Failed(right, node, table) ELSE
    IF left.type # right.type
    THEN Failed(EvalRaise("Exception", "TypeMismatch"), node, table) ELSE
    LET typed == [node EXCEPT !.condition = [evaluated_type |-> BOOL] @@ @]
        c == evaluate_condition(left.value, right.value, condition.operator)
    IN IF c.status # "ok" THEN Failed(c, typed, table) ELSE
    LET valued == [node EXCEPT !.condition = Annotate(@, BOOL, c.value)]
        blocks == analyze_blocks(valued, table)
    IN IF blocks.status # "ok" THEN Failed(blocks, valued, blocks.table)
       ELSE blocks

(***************************************************************************)
(* The pipeline                                                            *)
(***************************************************************************)
Idle ==
    /\ tokens = <<>>
    /\ token_starts = <<>>
    /\ current_line = 1
    /\ position = 1
    /\ lexStatus = "idle"
    /\ ast = <<>>
    /\ pos = 1
    /\ parseStatus = "idle"
    /\ parseError = [line |-> 0, expected |-> None]
    /\ symbol_table = <<>>
    /\ idx = 1
    /\ attributed_ast = <<>>
    /\ semStatus = "idle"
    /\ semError = None

\* one turn of the while loop of LexicalAnalyzer.tokenize
TokenizeStep ==
    /\ stage = "lex"
    /\ position <= Len(source_code)
    /\ IF source_code[position] = "\n"
       THEN /\ current_line' = current_line + 1
            /\ position' = position + 1
            /\ UNCHANGED <<tokens, token_starts, lexStatus, stage>>
       ELSE LET m == FirstMatch(source_code, position)
                lexeme == SubSeq(source_code, position, m[2] - 1)
            IN IF m[1] = None
               THEN /\ lexStatus' = "LexicalError"
                    /\ stage' = "done"
                    /\ UNCHANGED <<tokens, token_starts, current_line, position>>
               ELSE /\ IF m[1] # "WHITESPACE"
                       THEN /\ tokens' = Append(tokens, <<m[1], lexeme, current_line>>)
                            /\ token_starts' = Append(token_starts, position)
                       ELSE UNCHANGED <<tokens, token_starts>>
                    /\ position' = m[2]
                    /\ UNCHANGED <<current_line, lexStatus, stage>>
    /\ UNCHANGED <<source_code, ast, pos, parseStatus, parseError,
                   symbol_table, idx, attributed_ast, semStatus, semError>>

\* the cursor is past the text: return self.tokens
TokenizeReturn ==
    /\ stage = "lex"
    /\ position > Len(source_code)
    /\ lexStatus' = "ok"
    /\ stage' = "parse"
    /\ UNCHANGED <<source_code, tokens, token_starts, current_line, position,
                   ast, pos, parseStatus, parseError, symbol_table, idx,
                   attributed_ast, semStatus, semError>>

\* SyntaxAnalyzer(tokens).parse_program()
ParseProgram ==
    /\ stage = "parse"
    /\ LET r == parse_program(tokens)
       IN /\ pos' = r.pos
          /\ parseStatus' = r.status
          /\ IF r.status = "ok"
             THEN /\ ast' = r.node
                  /\ stage' = "sem"
                  /\ semStatus' = "running"
                  /\ UNCHANGED parseError
             ELSE /\ parseError' = [line |-> r.line, expected |-> r.expected]
                  /\ stage' = "done"
                  /\ UNCHANGED <<ast, semStatus>>
    /\ UNCHANGED <<source_code, tokens, token_starts, current_line, position,
                   lexStatus,
                   symbol_table, idx, attributed_ast, semError>>

\* a turn of the loop of SemanticAnalyzer.analyze is at a node of `kind`
AtNode(kind) ==
    /\ stage = "sem"
    /\ idx <= Len(ast)
    /\ ast[idx].type = kind

\* the turn ends as the method called on the node did: r is what it left
Commit(r) ==
    /\ ast' = [ast EXCEPT ![idx] = r.node]
    /\ symbol_table' = r.table
    /\ IF r.status = "ok"
       THEN /\ attributed_ast' = Append(attributed_ast, r.node)
            /\ idx' = idx + 1
            /\ UNCHANGED <<stage, semStatus, semError>>
       ELSE /\ semStatus' = r.status
            /\ semError' = r.error
            /\ stage' = "done"
            /\ UNCHANGED <<idx, attributed_ast>>
    /\ UNCHANGED <<source_code, tokens, token_starts, current_line, position,
                   lexStatus, pos, parseStatus, parseError>>

AnalyzeDeclaration ==
    /\ AtNode("declaration")
    /\ \E r \in {analyze_declaration(ast[idx], symbol_table)} : Commit(r)

AnalyzeIfStatement ==
    /\ AtNode("if_statement")
    /\ \E r \in {analyze_if_statement(ast[idx], symbol_table)} : Commit(r)

AnalyzeReturnStatement ==
    /\ AtNode("return_statement")
    /\ \E r \in {analyze_return_statement(ast[idx], symbol_table)} : Commit(r)

\* a node of any other type matches no branch of the loop
AnalyzeOther ==
    /\ stage = "sem"
    /\ idx <= Len(ast)
    /\ ast[idx].type \notin {"declaration", "if_statement", "return_statement"}
    /\ idx' = idx + 1
    /\ UNCHANGED <<stage, source_code, tokens, token_starts, current_line,
                   position, lexStatus, ast, pos, parseStatus, parseError, symbol_table,
                   attributed_ast, semStatus, semError>>

\* the loop of analyze is over: return attributed_ast
AnalyzeReturn ==
    /\ stage = "sem"
    /\ idx > Len(ast)
    /\ semStatus' = "ok"
    /\ stage' = "done"
    /\ UNCHANGED <<source_code, tokens, token_starts, current_line, position,
                   lexStatus,
                   ast, pos, parseStatus, parseError, symbol_table, idx,
                   attributed_ast, semError>>

(***************************************************************************)
(* Inputs                                                                  *)
(***************************************************************************)
MaxSrcLen == 4

MaxOps == 2

MaxProgStmts == 2

MaxStmts == 2

SeqsUpTo(S, n) == UNION {[1..k -> S] : k \in 0..n}

RECURSIVE Join(_)
\* the words of ws, one space between two neighbours
Join(ws) ==
    IF ws = <<>> THEN <<>>
    ELSE IF Len(ws) = 1 THEN ws[1]
    ELSE ws[1] \o <<" ">> \o Join(Tail(ws))

IF_KW == <<"i","f">>

ELSE_KW == <<"e","l","s","e">>

RETURN_KW == <<"r","e","t","u","r","n">>

VarA == <<"a">>

VarB == <<"b">>

VarX == <<"x">>

VarSum == <<"s","u","m">>

\* ---- texts for the tokenizer alone
LexAlphabet == {"a", "1", ".", " ", "\n", "@"}

LexSources == SeqsUpTo(LexAlphabet, MaxSrcLen)

\* ---- texts for tokenizer and parser
ChainOps == { <<"+">>, <<"-">>, <<"*">>, <<"/">>, <<"<">>, <<">">> }

RECURSIVE Chains(_)
\* the word lists  operand (operator operand)^k
Chains(k) ==
    IF k = 0 THEN { <<v>> : v \in {VarA, VarB} }
    ELSE { c \o <<op, v>> : c \in Chains(k - 1), op \in ChainOps, v \in {VarA, VarB} }

\* return <chain> ;
ChainSource(c) == Join(<<RETURN_KW>> \o c \o << <<";">> >>)

ChainSources == { ChainSource(c) : c \in UNION { Chains(k) : k \in 0..MaxOps } }

Delims == { <<"(">>, <<")">>, <<"{">>, <<"}">> }

\* if d1 x d2 d3 d4
IfShape(d) == Join(<<IF_KW, d[1], VarX, d[2], d[3], d[4]>>)

\* if d1 x d2 d3 d4 else d5 d6
IfElseShape(d, e) == Join(<<IF_KW, d[1], VarX, d[2], d[3], d[4], ELSE_KW, e[1], e[2]>>)

Proper == << <<"(">>, <<")">>, <<"{">>, <<"}">> >>

DelimChoices == [1..4 -> Delims]

BraceChoices == [1..2 -> { <<"{">>, <<"}">> }]

IfSources ==
    { IfShape(d) : d \in DelimChoices }
      \cup { IfElseShape(d, e) : d \in DelimChoices, e \in BraceChoices }

WholePrograms ==
    { <<INT, VarX, <<"=">>, <<"5">>, <<";">> >>,
      <<VarX, <<"=">>, <<"(">>, VarX, <<"+">>, <<"1">>, <<")">>, <<"*">>, <<"2">>, <<";">> >>,
      <<IF_KW, <<"(">>, VarX, <<"<">>, <<"1">>, <<")">>, <<"{">>,
        RETURN_KW, VarX, <<";">>, <<"}">>, ELSE_KW, <<"{">>, <<"}">> >>,
      << <<"w","h","i","l","e">> >>,
      <<RETURN_KW, <<";">> >> }

\* every program of WholePrograms cut after any number of its tokens
CutSources ==
    UNION { { Join(SubSeq(w, 1, k)) : k \in 0..Len(w) } : w \in WholePrograms }

ParseSources == ChainSources \cup IfSources \cup CutSources

\* ---- texts for the whole pipeline
ExampleProgram ==
    Join(<<INT, VarA, <<"=">>, <<"5">>, <<";">>,
           INT, VarB, <<"=">>, <<"1","0">>, <<";">>,
           INT, VarSum, <<"=">>, VarA, <<"+">>, VarB, <<";">>,
           RETURN_KW, VarSum, <<";">> >>)

Literals == { <<"5">>, <<"1","0">>, <<"2",".","5">> }

WholeLiterals == { <<"5">>, <<"1","0">> }

DeclSource(ty, v, lit) == Join(<<ty, v, <<"=">>, lit, <<";">> >>)

CondOps == { <<"<">>, <<">">>, <<"=","=">>, <<"<","=">>, <<">","=">>, <<"!","=">> }

\* if ( x op x ) { }
CondSource(op) ==
    Join(<<IF_KW, <<"(">>, VarX, op, VarX, <<")">>, <<"{">>, <<"}">> >>)

PipeStatements ==
    { DeclSource(ty, v, lit) : ty \in {INT, FLOAT}, v \in {VarA, VarX}, lit \in Literals }
      \cup { CondSource(op) : op \in CondOps }
      \cup { Join(<<RETURN_KW, VarX, <<";">> >>),
             Join(<<VarX, <<"=">>, <<"5">>, <<";">> >>) }

PipeSources ==
    { Join(p) : p \in SeqsUpTo(PipeStatements, MaxProgStmts) } \cup {ExampleProgram}

\* ---- statement lists for the semantic analyzer alone
NumberNode(v) == [type |-> "number", value |-> v]

IdNode(name) == [type |-> "identifier", name |-> name]

I5 == NumberNode(Num("int", 5, 1))

F25 == NumberNode(Num("float", 5, 2))

X == IdNode(VarX)

Leaves == {I5, F25, X}

SemExprs == Leaves \cup { BinaryOperation(<<"+">>, l, r) : l \in Leaves, r \in Leaves }

Declaration(ty, v, e) ==
    [type |-> "declaration", var_type |-> ty, var_name |-> v, expression |-> e]

ReturnStatement(e) == [type |-> "return_statement", expression |-> e]

Assignment(v, e) == [type |-> "assignment", var_name |-> v, expression |-> e]

IfStatement(c, body) == [type |-> "if_statement", condition |-> c, body |-> body]

IfElseStatement(c, body, else_body) ==
    [type |-> "if_statement", condition |-> c, body |-> body,
     else_body |-> else_body]

SemConditions ==
    { BinaryOperation(<<"<">>, X, I5), BinaryOperation(<<"<">>, I5, I5),
      BinaryOperation(<<"<">>, I5, F25), BinaryOperation(<<"<","=">>, I5, I5) }

SemStatements ==
    { Declaration(ty, VarX, e) : ty \in {INT, FLOAT}, e \in SemExprs }
      \cup { ReturnStatement(e) : e \in {X, I5, BinaryOperation(<<"+">>, X, I5)} }
      \cup { Assignment(VarX, I5) }
      \cup { IfStatement(c, <<>>) : c \in SemConditions }
      \cup { IfStatement(c, <<Declaration(INT, VarX, I5)>>) : c \in SemConditions }
      \cup { IfElseStatement(c, <<>>, <<ReturnStatement(I5)>>) : c \in SemConditions }
      \cup { IfStatement(X, <<>>) }

SemASTs == SeqsUpTo(SemStatements, MaxStmts)

(***************************************************************************)
(* Specifications                                                          *)
(***************************************************************************)
\* LexicalAnalyzer(raw): the constructor strips the leading whitespace
Constructed(raw) ==
    /\ source_code = LStrip(raw)
    /\ stage = "lex"
    /\ Idle

InitLex == \E raw \in LexSources : Constructed(raw)

NextLex == TokenizeStep \/ TokenizeReturn

SpecLex == InitLex /\ [][NextLex]_vars

InitParse == \E raw \in ParseSources : Constructed(raw)

NextParse == TokenizeStep \/ TokenizeReturn \/ ParseProgram

SpecParse == InitParse /\ [][NextParse]_vars

\* SemanticAnalyzer() about to analyze a statement list built by hand
InitSem ==
    /\ source_code = <<>>
    /\ stage = "sem"
    /\ tokens = <<>>
    /\ token_starts = <<>>
    /\ current_line = 1
    /\ position = 1
    /\ lexStatus = "idle"
    /\ ast \in SemASTs
    /\ pos = 1
    /\ parseStatus = "idle"
    /\ parseError = [line |-> 0, expected |-> None]
    /\ symbol_table = <<>>
    /\ idx = 1
    /\ attributed_ast = <<>>
    /\ semStatus = "running"
    /\ semError = None

NextSem ==
    \/ AnalyzeDeclaration
    \/ AnalyzeIfStatement
    \/ AnalyzeReturnStatement
    \/ AnalyzeOther
    \/ AnalyzeReturn

SpecSem == InitSem /\ [][NextSem]_vars

Init == \E raw \in PipeSources : Constructed(raw)

Next ==
    \/ TokenizeStep
    \/ TokenizeReturn
    \/ ParseProgram
    \/ AnalyzeDeclaration
    \/ AnalyzeIfStatement
    \/ AnalyzeReturnStatement
    \/ AnalyzeOther
    \/ AnalyzeReturn

Spec == Init /\ [][Next]_vars

(***************************************************************************)
(* Properties                                                              *)
(***************************************************************************)
IsNumber(v, k) == v.n = k /\ v.d = 1

HasEntry(table, name, type, k) ==
    /\ name \in DOMAIN table
    /\ table[name].type = type
    /\ IsNumber(table[name].value, k)

\* C1: the pipeline on 'int a = 5; int b = 10; int sum = a + b; return sum;'
\* gives 16 tokens, 4 statements, the table a -> (int, 5), b -> (int, 10),
\* sum -> (int, 15) and the return expression valued 15; and every
\* declaration 'int v = <literal with no fraction>;' is accepted, its
\* literal typed int and v recorded with type int.
C1_ExampleAndIntLiterals ==
    stage = "done" =>
      /\ source_code = ExampleProgram =>
           /\ Len(tokens) = 16
           /\ parseStatus = "ok"
           /\ Len(ast) = 4
           /\ semStatus = "ok"
           /\ HasEntry(symbol_table, VarA, INT, 5)
           /\ HasEntry(symbol_table, VarB, INT, 10)
           /\ HasEntry(symbol_table, VarSum, INT, 15)
           /\ IsNumber(ast[4].expression.evaluated_value, 15)
      /\ \A v \in {VarA, VarX}, lit \in WholeLiterals :
           source_code = DeclSource(INT, v, lit) =>
             /\ semStatus = "ok"
             /\ ast[1].expression.evaluated_type = INT
             /\ v \in DOMAIN symbol_table
             /\ symbol_table[v].type = INT

RECURSIVE ExprAnnotated(_)
ExprAnnotated(e) ==
    /\ {"evaluated_type", "evaluated_value"} \subseteq DOMAIN e
    /\ e.type = "binary_operation" =>
         ExprAnnotated(e.left) /\ ExprAnnotated(e.right)

RECURSIVE StatementAnnotated(_)
StatementAnnotated(st) ==
    IF st.type = "if_statement"
    THEN /\ ExprAnnotated(st.condition)
         /\ \A k \in 1..Len(st.body) : StatementAnnotated(st.body[k])
         /\ "else_body" \in DOMAIN st =>
              \A k \in 1..Len(st.else_body) : StatementAnnotated(st.else_body[k])
    ELSE ExprAnnotated(st.expression)

\* C2: once analyze has returned, every expression node reachable from the
\* statement list (the expression of every declaration, assignment and
\* return, every if condition, every operand of a binary operation) has
\* evaluated_type and evaluated_value set.
C2_EveryExpressionAnnotated ==
    semStatus = "ok" => \A k \in 1..Len(ast) : StatementAnnotated(ast[k])

\* the characters some token pattern other than UNKNOWN is made of
PatternChars ==
    WordChars \cup OperatorChars \cup ParenChars \cup BraceChars
      \cup WhitespaceChars \cup {";", "."}

HasIllegal(text) == \E k \in 1..Len(text) : text[k] \notin PatternChars

\* C3: a text holding a character that belongs to no keyword, identifier,
\* number, operator, parenthesis, brace, semicolon or whitespace makes
\* tokenize stop with a lexical error, and no token is ever made of such a
\* character.
C3_IllegalCharacterIsAnError ==
    /\ \A k \in 1..Len(tokens) : ~HasIllegal(tokens[k][2])
    /\ (stage # "lex" /\ HasIllegal(source_code)) => lexStatus = "LexicalError"

\* C4: whenever parse_program rejects a token list, also one that ends
\* before a statement, expression or block is complete, what it raises is
\* a SyntaxError that carries a line.
C4_RejectionIsSyntaxError ==
    parseStatus \notin {"idle", "ok"} =>
      /\ parseStatus = "SyntaxError"
      /\ parseError.line >= 1

NewlinesBefore(text, p) == Cardinality({k \in 1..(p - 1) : text[k] = "\n"})

\* C5: the line of every token is 1 plus the number of newlines that come
\* before the token in the scanned text.
C5_LineCountsNewlines ==
    \A k \in 1..Len(tokens) :
        tokens[k][3] = 1 + NewlinesBefore(source_code, token_starts[k])

\* the condition of an if statement passes the checks of analyze_if_statement
ConditionChecks(node, table) ==
    /\ "left" \in DOMAIN node.condition
    /\ evaluate_expression(node.condition.left, table).status = "ok"
    /\ evaluate_expression(node.condition.right, table).status = "ok"
    /\ evaluate_expression(node.condition.left, table).type
         = evaluate_expression(node.condition.right, table).type
    /\ node.condition.operator \in { <<"<">>, <<">">>, <<"=","=">> }

\* the declarations of a block are right whatever the table holds: a number
\* literal of the declared type
PlainDeclarations(block) ==
    \A k \in 1..Len(block) :
        /\ block[k].type = "declaration"
        /\ block[k].expression.type = "number"
        /\ evaluate_expression(block[k].expression, <<>>).type = block[k].var_type

\* C6: analysing an if statement whose condition type-checks and whose
\* non-empty body holds valid declarations does not fail, and commits the
\* nested declarations to the symbol table.
C6_IfBodyIsAnalysed ==
    [][ ( /\ stage = "sem"
          /\ idx <= Len(ast)
          /\ ast[idx].type = "if_statement"
          /\ ConditionChecks(ast[idx], symbol_table)
          /\ Len(ast[idx].body) > 0
          /\ PlainDeclarations(ast[idx].body)
          /\ "else_body" \notin DOMAIN ast[idx] )
        => ( /\ semStatus' = "running"
             /\ \A k \in 1..Len(ast[idx].body) :
                  /\ ast[idx].body[k].var_name \in DOMAIN symbol_table'
                  /\ symbol_table'[ast[idx].body[k].var_name].type
                       = ast[idx].body[k].var_type ) ]_vars

RECURSIVE CommittedTable(_)
\* the table the declarations of a list of analysed statements make
CommittedTable(nodes) ==
    IF nodes = <<>> THEN <<>>
    ELSE LET last == nodes[Len(nodes)]
             before == CommittedTable(SubSeq(nodes, 1, Len(nodes) - 1))
         IN IF last.type = "declaration"
            THEN (last.var_name :> [type |-> last.var_type,
                                   value |-> last.expression.evaluated_value])
                   @@ before
            ELSE before

SemanticFailure ==
    /\ semStatus = "Exception"
    /\ semError \in {"TypeMismatch", "UndeclaredVariable"}

\* C7: when analyze fails on a statement (a declaration of the wrong type,
\* an undeclared variable, int mixed with float), the symbol table is the
\* one the statements before it produced: they stay committed and the
\* failing statement adds or changes no entry.
C7_FailureKeepsCommittedTable ==
    SemanticFailure => symbol_table = CommittedTable(attributed_ast)

\* a declaration fails on its type after an earlier one was committed
C7_Witness ==
    /\ semStatus = "Exception"
    /\ semError = "TypeMismatch"
    /\ idx > 1
    /\ ast[idx].type = "declaration"
    /\ DOMAIN symbol_table # {}

\* grammar level of an operator: comparison, then + and -, then * and /
Level(operator) ==
    IF operator \in { <<"*">>, <<"/">> } THEN 3
    ELSE IF operator \in { <<"+">>, <<"-">> } THEN 2
    ELSE 1

ExprLevel(e) == IF e.type = "binary_operation" THEN Level(e.operator) ELSE 4

RECURSIVE LeftLeaning(_)
\* the right operand of every operator is of a tighter level, the left
\* operand of the same level or a tighter one
LeftLeaning(e) ==
    e.type = "binary_operation" =>
      /\ ExprLevel(e.left) >= Level(e.operator)
      /\ ExprLevel(e.right) > Level(e.operator)
      /\ LeftLeaning(e.left)
      /\ LeftLeaning(e.right)

RECURSIVE InOrder(_)
\* operands and operators of a tree of identifiers, left to right
InOrder(e) ==
    IF e.type = "binary_operation"
    THEN InOrder(e.left) \o <<e.operator>> \o InOrder(e.right)
    ELSE <<e.name>>

\* the tokens are  return identifier (operator identifier)* ;
IsChain(toks) ==
    /\ Len(toks) >= 3
    /\ toks[1][2] = RETURN_KW
    /\ toks[Len(toks)][1] = "SEMICOLON"
    /\ \A k \in 2..(Len(toks) - 1) :
         toks[k][1] = (IF k % 2 = 0 THEN "IDENTIFIER" ELSE "OPERATOR")

\* C8: a chain of operands joined by operators parses to a left-leaning
\* tree: operators of one level group from the left, * and / bind tighter
\* than + and -, which bind tighter than comparisons.
C8_ChainsAreLeftLeaning ==
    (parseStatus = "ok" /\ IsChain(tokens)) =>
      /\ Len(ast) = 1
      /\ LeftLeaning(ast[1].expression)
      /\ InOrder(ast[1].expression)
           = [k \in 1..(Len(tokens) - 2) |-> tokens[k + 1][2]]

\* 'return a - b - c ;' parsed to ((a - b) - c)
C8_Witness ==
    /\ parseStatus = "ok"
    /\ IsChain(tokens)
    /\ Len(tokens) = 7
    /\ tokens[3][2] = <<"-">>
    /\ tokens[5][2] = <<"-">>
    /\ ast[1].expression.left.type = "binary_operation"
    /\ ast[1].expression.right.type = "identifier"

Opposite(d) ==
    IF d = <<"(">> THEN <<")">>
    ELSE IF d = <<")">> THEN <<"(">>
    ELSE IF d = <<"{">> THEN <<"}">>
    ELSE <<"{">>

\* the shape ( ) { } with at least one delimiter replaced by its opposite
Swapped ==
    { d \in DelimChoices :
        /\ \A k \in 1..4 : d[k] \in {Proper[k], Opposite(Proper[k])}
        /\ \E k \in 1..4 : d[k] # Proper[k] }

\* C9: an if statement in which a delimiter is replaced by its opposite
\* (')' for '(', '(' for ')', '}' to open the block, '{' to close it) is
\* rejected with a SyntaxError.
C9_SwappedDelimiterRejected ==
    \A d \in Swapped :
        (stage \notin {"lex", "parse"} /\ source_code = IfShape(d))
          => parseStatus = "SyntaxError"

\* float x = 5 ; if ( x op x ) { }
CondProgram(op) == Join(<<DeclSource(FLOAT, VarX, <<"5">>), CondSource(op)>>)

\* C10: with <=, >= or != in the condition, tokenizing and parsing succeed
\* and the failure is the unsupported-operator error of the analysis; with
\* <, > or == the condition is analysed to a bool.
C10_TwoCharacterComparisons ==
    \A op \in CondOps :
        (stage = "done" /\ source_code = CondProgram(op)) =>
          /\ lexStatus = "ok"
          /\ parseStatus = "ok"
          /\ IF op \in { <<"<","=">>, <<">","=">>, <<"!","=">> }
             THEN semStatus = "Exception" /\ semError = "UnsupportedOperator"
             ELSE /\ semStatus = "ok"
                  /\ ast[2].condition.evaluated_type = BOOL

=============================================================================
